---- MODULE Spec2Model ----
(***************************************************************************)
(* Authentication / session lifecycle of the truck-pit-stop backend:       *)
(* backend/app/api/v1/endpoints/auth.py, core/security.py, core/redis.py   *)
(* and core/dependencies.py.                                               *)
(*                                                                         *)
(* The state is the users table, the Redis keys (token blacklist, token    *)
(* version counters, password-reset tokens), the tokens issued so far, the *)
(* wall clock and the last HTTP exchange.  Each endpoint is one action     *)
(* that runs the whole handler, its dependencies included.                 *)
(*                                                                         *)
(* Time is counted in ticks of 1/TicksPerSecond second.  The clock moves   *)
(* only to instants at which some token or Redis key changes status.       *)
(* A Redis outage is an input of each request.  The slowapi rate limits    *)
(* are not modelled.                                                       *)
(***************************************************************************)
EXTENDS Integers, Sequences, FiniteSets, TLC

VARIABLES
    users,       \* users table: user id -> [email, hashed_password, role, is_active, is_verified]
    issued,      \* token pairs issued so far: Seq([sub, ver, iat, epoch])
    blacklist,   \* Redis token_blacklist:<jti>: jti -> expiry instant (0: no key)
    version,     \* Redis token_version:<user id>: user id -> counter (0: no key)
    resets,      \* Redis password_reset:<token>: token -> [email, expire] (expire 0: no key)
    nresets,     \* number of reset tokens generated so far
    now,         \* UTC wall clock, in ticks
    tz,          \* offset of the server's local time from UTC, in seconds
    pwEpoch,     \* history: user id -> completed [change, reset] password changes
    consumed,    \* history: refresh and reset tokens a successful call has used
    last,        \* the last HTTP exchange
    registering, \* register calls between their email lookup and their commit:
                 \* email -> number of calls in flight
    calls,       \* requests in flight that run concurrently: slot -> the call's
                 \* operation, its position in the handler and its local variables
    repair_orders, \* repair_orders table: set of [tenant_id, order_number]
    creating     \* create_repair_order calls in flight: slot -> the call's
                 \* position, its tenant, its order number and its response

vars == <<users, issued, blacklist, version, resets, nresets, now, tz,
          pwEpoch, consumed, last, registering, calls, repair_orders, creating>>

-----------------------------------------------------------------------------
(* Bounds of the model *)

MaxPairs == 2            \* token pairs issued in one behaviour
MaxVersion == 1          \* password changes per user in one behaviour
MaxResets == 1           \* reset tokens generated in one behaviour
TicksPerSecond == 2      \* clock resolution
WatchedPairs == 1        \* the clock visits the expiry of the tokens of the first pairs
MaxRegistering == 2      \* register calls in flight for one email
MaxCalls == 2            \* concurrent requests in flight
MaxRacePairs == 3        \* token pairs issued in one behaviour of concurrent requests
MaxRaceResets == 2       \* reset tokens generated in one behaviour of concurrent requests
MaxRaceVersion == 2      \* password changes per user in one behaviour of concurrent requests
MaxCreating == 2         \* create_repair_order calls in flight
MaxOrders == 3           \* repair orders stored in one behaviour

(* Program constants *)

ACCESS_TOKEN_EXPIRE_MINUTES == 30
REFRESH_TOKEN_EXPIRE_DAYS == 7
RESET_EXPIRES_IN == 3600

\* The users table holds alice (active) and bob (inactive) at the start;
\* carol has no account yet.  UserIds are the primary keys the table can
\* hand out.  The server runs in UTC or one hour west of it.
UserIds == {1, 2, 3}
Emails == {"alice@x.com", "bob@x.com", "carol@x.com"}
Passwords == {"pw123456", "pw654321"}
TzOffsets == {-3600, 0}

-----------------------------------------------------------------------------
(* core/security.py *)

\* bcrypt digest of a password: not the password, and verifiable only
\* against the same password.
get_password_hash(password) == <<"bcrypt", password>>

verify_password(plain_password, hashed_password) ==
    hashed_password = <<"bcrypt", plain_password>>

\* The expiry claim is written as whole seconds since the epoch.
UtcSeconds == now \div TicksPerSecond

create_access_token(sub, jti, token_version, iat) ==
    [sub |-> sub, jti |-> jti, ver |-> token_version,
     exp |-> iat + ACCESS_TOKEN_EXPIRE_MINUTES * 60,
     typ |-> "none", sig |-> TRUE]

create_refresh_token(sub, jti, token_version, iat) ==
    [sub |-> sub, jti |-> jti, ver |-> token_version,
     exp |-> iat + REFRESH_TOKEN_EXPIRE_DAYS * 24 * 60 * 60,
     typ |-> "refresh", sig |-> TRUE]

\* No credential in the request.
NoToken == [sub |-> 0, jti |-> 0, ver |-> 0, exp |-> 0, typ |-> "absent", sig |-> FALSE]

\* jose.jwt.decode: the signature must verify and the token is expired
\* when exp < now (whole seconds).
decode_token(token) ==
    IF token.sig /\ ~(token.exp < UtcSeconds) THEN token ELSE NoToken

Decodes(token) == decode_token(token) # NoToken

\* datetime.fromtimestamp(exp) is a naive local time, datetime.utcnow() a
\* naive UTC time; int() truncates toward zero.
get_token_expiry_seconds(token) ==
    IF ~Decodes(token) THEN 0
    ELSE LET remaining == (token.exp + tz) * TicksPerSecond - now
         IN  IF remaining <= 0 THEN 0 ELSE remaining \div TicksPerSecond

-----------------------------------------------------------------------------
(* core/redis.py *)

\* SETEX token_blacklist:<jti> expires_in "1"
blacklist_token(bl, jti, expires_in) ==
    [bl EXCEPT ![jti] = now + expires_in * TicksPerSecond]

\* EXISTS token_blacklist:<jti>; Redis drops a key when its TTL has elapsed.
is_token_blacklisted(jti) == blacklist[jti] > now

\* A plausible slip: the counter is left as it is.
increment_token_version_noop(ver, user_id) == ver

\* A plausible slip: one key for all users.
increment_token_version_all(ver, user_id) == [u \in DOMAIN ver |-> ver[u] + 1]

\* INCR token_version:<user id>
increment_token_version(ver, user_id) == [ver EXCEPT ![user_id] = @ + 1]

\* GET token_version:<user id>, 0 when there is no key
get_token_version(user_id) == version[user_id]

\* The values secrets.token_urlsafe(32) returns, in the order of the calls.
ResetTokens == 1 .. MaxRaceResets

\* SETEX password_reset:<token> expires_in email
store_password_reset_token(rs, email, token, expires_in) ==
    [rs EXCEPT ![token] = [email |-> email, expire |-> now + expires_in * TicksPerSecond]]

\* GET password_reset:<token>
get_email_from_reset_token(token) ==
    IF resets[token].expire > now THEN resets[token].email ELSE "none"

\* A plausible slip: the key is left in place.
delete_password_reset_token_noop(rs, token) == rs

\* DEL password_reset:<token>
delete_password_reset_token(rs, token) ==
    [rs EXCEPT ![token] = [email |-> "none", expire |-> 0]]

-----------------------------------------------------------------------------
(* Tokens a client can present *)

Jtis == 1 .. (2 * MaxRacePairs)

PairOf(t) == (t.jti + 1) \div 2

AccessOf(i) == create_access_token(issued[i].sub, 2 * i - 1, issued[i].ver, issued[i].iat)
RefreshOf(i) == create_refresh_token(issued[i].sub, 2 * i, issued[i].ver, issued[i].iat)

IssuedTokens == {AccessOf(i) : i \in 1 .. Len(issued)} \cup {RefreshOf(i) : i \in 1 .. Len(issued)}

\* A token whose claims were edited by someone who does not hold SECRET_KEY.
Forge(t) == [t EXCEPT !.ver = MaxVersion, !.exp = @ + 1, !.sig = FALSE]

ForgedTokens == {Forge(t) : t \in IssuedTokens}

-----------------------------------------------------------------------------
(* HTTP responses *)

Resp(status, detail) == [status |-> status, detail |-> detail]

ServerError == Resp(500, "Internal Server Error")

UserByEmail(email) == {u \in DOMAIN users : users[u].email = email}

\* result.scalar_one_or_none() of a lookup by email (0: None)
UserIdOf(email) == IF UserByEmail(email) = {} THEN 0 ELSE CHOOSE u \in UserByEmail(email) : TRUE

-----------------------------------------------------------------------------
(* core/dependencies.py *)

\* A request: the Authorization header (scheme "none" when absent) and the
\* two cookies (NoToken when absent).
Req(scheme, cred, access_cookie, refresh_cookie) ==
    [scheme |-> scheme, cred |-> cred,
     access_cookie |-> access_cookie, refresh_cookie |-> refresh_cookie]

\* HTTPBearer(auto_error=False) accepts the bearer scheme in any letter case.
get_token_from_request(req) ==
    IF req.scheme \in {"Bearer", "bearer"} /\ req.cred # NoToken THEN req.cred
    ELSE req.access_cookie

Outcome(status, detail, user) == [status |-> status, detail |-> detail, user |-> user]

\* A plausible slip: the token version is not compared.
get_current_user_noversion(token, redis_ok) ==
    LET payload == decode_token(token) IN
    IF payload = NoToken \/ payload.sub = 0
    THEN Outcome(401, "Invalid authentication credentials", 0)
    ELSE IF ~redis_ok THEN Outcome(500, "Internal Server Error", 0)
    ELSE IF is_token_blacklisted(payload.jti) THEN Outcome(401, "Token has been revoked", 0)
    ELSE IF payload.sub \notin DOMAIN users THEN Outcome(401, "User not found", 0)
    ELSE IF ~users[payload.sub].is_active THEN Outcome(403, "Inactive user", 0)
    ELSE Outcome(200, "OK", payload.sub)

\* A plausible slip: a failed Redis call is caught and read as "not
\* blacklisted" and as version 0.
get_current_user_failopen(token, redis_ok) ==
    LET payload == decode_token(token) IN
    IF payload = NoToken \/ payload.sub = 0
    THEN Outcome(401, "Invalid authentication credentials", 0)
    ELSE IF redis_ok /\ is_token_blacklisted(payload.jti)
    THEN Outcome(401, "Token has been revoked", 0)
    ELSE IF redis_ok /\ payload.ver < get_token_version(payload.sub)
    THEN Outcome(401, "Token has been invalidated", 0)
    ELSE IF payload.sub \notin DOMAIN users THEN Outcome(401, "User not found", 0)
    ELSE IF ~users[payload.sub].is_active THEN Outcome(403, "Inactive user", 0)
    ELSE Outcome(200, "OK", payload.sub)

\* redis_ok: whether Redis answers during the request; a failed Redis call
\* raises and the request ends with a 500.
get_current_user(token, redis_ok) ==
    LET payload == decode_token(token) IN
    IF payload = NoToken
    THEN Outcome(401, "Invalid authentication credentials", 0)
    ELSE IF payload.sub = 0
    THEN Outcome(401, "Invalid authentication credentials", 0)
    ELSE IF ~redis_ok
    THEN Outcome(500, "Internal Server Error", 0)
    ELSE IF is_token_blacklisted(payload.jti)
    THEN Outcome(401, "Token has been revoked", 0)
    ELSE IF payload.ver < get_token_version(payload.sub)
    THEN Outcome(401, "Token has been invalidated", 0)
    ELSE IF payload.sub \notin DOMAIN users
    THEN Outcome(401, "User not found", 0)
    ELSE IF ~users[payload.sub].is_active
    THEN Outcome(403, "Inactive user", 0)
    ELSE Outcome(200, "OK", payload.sub)

\* Depends(get_current_active_user) of a request.
Authenticate(req, redis_ok) ==
    IF get_token_from_request(req) = NoToken
    THEN Outcome(401, "Not authenticated", 0)
    ELSE get_current_user(get_token_from_request(req), redis_ok)

-----------------------------------------------------------------------------
(* The last exchange *)

\* The operation of the last request and its response.
\*   user:   the user the call authenticated as, or acted on (0: none)
\*   tok:    the token that authenticated the call (NoToken: none did)
\*   rtok:   the refresh_token cookie of an authenticated logout
\*   pair:   the index of the token pair the call issued (0: none)
\*   reset:  the reset token the call stored or used (0: none)
\*   replay: the call presented a refresh or reset token that an earlier
\*           successful call had already used
\*   sent:   the call sent the password-reset email
NoExchange ==
    [op |-> "none", status |-> 0, detail |-> "none", user |-> 0,
     tok |-> NoToken, rtok |-> NoToken, pair |-> 0, reset |-> 0, replay |-> FALSE,
     sent |-> FALSE]

Exchange(op, resp) ==
    [NoExchange EXCEPT !.op = op, !.status = resp.status, !.detail = resp.detail]

\* The server is between two requests.
Idle == last = NoExchange

NewPair(sub, ver) == [sub |-> sub, ver |-> ver, iat |-> UtcSeconds, epoch |-> pwEpoch[sub]]

-----------------------------------------------------------------------------
(* api/v1/endpoints/auth.py: register *)

\* A plausible slip: the email is not looked up before the insert.
register_response_nocheck(email, built) ==
    IF ~built THEN ServerError
    ELSE Resp(0, "none")

\* The response of register before its commit, Resp(0, "none") when the
\* call goes on to the commit.  built: whether User(...) accepts the
\* keyword arguments first_name and last_name of the call; the User class
\* declares full_name and neither of them, and a declarative constructor
\* raises TypeError for a keyword that is no attribute of the class.
register_response(email, built) ==
    IF UserIdOf(email) # 0 THEN Resp(400, "Email already registered")
    ELSE IF ~built THEN ServerError
    ELSE Resp(0, "none")

\* A plausible slip: the new user gets a staff role.
register_user_admin(email, password) ==
    [email |-> email, hashed_password |-> get_password_hash(password),
     role |-> "garage_admin", is_active |-> TRUE, is_verified |-> FALSE]

\* User(email=..., hashed_password=..., role=UserRole.CUSTOMER,
\*      is_active=True, is_verified=False)
register_user(email, password) ==
    [email |-> email, hashed_password |-> get_password_hash(password),
     role |-> "customer", is_active |-> TRUE, is_verified |-> FALSE]

\* create_access_token(..., token_version=0)
register_token_version(uid) == 0

\* The primary key of the next row.
NewUserId == CHOOSE u \in UserIds : u \notin DOMAIN users

\* register up to the commit: the lookup by email, then the construction of
\* the User object.  Other requests run between this step and the commit.
register_begin(email, built) ==
    LET resp == register_response(email, built)
        goes_on == resp.status = 0
    IN
    /\ Idle
    /\ goes_on => registering[email] < MaxRegistering
    /\ registering' = IF goes_on THEN [registering EXCEPT ![email] = @ + 1] ELSE registering
    /\ last' = IF goes_on THEN last ELSE Exchange("register", resp)
    /\ UNCHANGED <<users, issued, blacklist, version, resets, nresets, now, tz,
                   pwEpoch, consumed, calls, repair_orders, creating>>

\* register from the commit on: the insert fails on the unique index of
\* users.email when a row with the email exists by now (IntegrityError, not
\* caught); else the row is stored and the tokens are issued.
register_commit(email, password) ==
    LET taken == UserIdOf(email) # 0
        uid == NewUserId
    IN
    /\ Idle
    /\ registering[email] > 0
    /\ ~taken => (DOMAIN users # UserIds /\ Len(issued) < MaxPairs)
    /\ registering' = [registering EXCEPT ![email] = @ - 1]
    /\ users' = IF taken THEN users
                ELSE [u \in DOMAIN users \cup {uid} |->
                        IF u = uid THEN register_user(email, password) ELSE users[u]]
    /\ issued' = IF taken THEN issued
                 ELSE Append(issued, NewPair(uid, register_token_version(uid)))
    /\ last' = IF taken THEN Exchange("register", ServerError)
               ELSE [Exchange("register", Resp(201, "Created")) EXCEPT
                        !.user = uid, !.pair = Len(issued) + 1]
    /\ UNCHANGED <<blacklist, version, resets, nresets, now, tz, pwEpoch, consumed,
                   calls, repair_orders, creating>>

-----------------------------------------------------------------------------
(* api/v1/endpoints/auth.py: login *)

\* A plausible slip: an unknown email is reported as such.
login_response_enumerating(email, password, redis_ok) ==
    IF UserIdOf(email) = 0 THEN Resp(404, "User not found")
    ELSE IF ~verify_password(password, users[UserIdOf(email)].hashed_password)
    THEN Resp(401, "Incorrect email or password")
    ELSE IF ~users[UserIdOf(email)].is_active THEN Resp(403, "Inactive user")
    ELSE IF ~redis_ok THEN ServerError
    ELSE Resp(200, "OK")

login_response(email, password, redis_ok) ==
    IF UserIdOf(email) = 0
       \/ ~verify_password(password, users[UserIdOf(email)].hashed_password)
    THEN Resp(401, "Incorrect email or password")
    ELSE IF ~users[UserIdOf(email)].is_active THEN Resp(403, "Inactive user")
    ELSE IF ~redis_ok THEN ServerError
    ELSE Resp(200, "OK")

\* A plausible slip: login issues at version 0, as register does.
login_token_version_zero(uid) == 0

\* token_version = await get_token_version(str(user.id))
login_token_version(uid) == get_token_version(uid)

login(email, password, redis_ok) ==
    LET resp == login_response(email, password, redis_ok)
        okay == resp.status = 200
        uid  == UserIdOf(email)
    IN
    /\ Idle
    /\ okay => Len(issued) < MaxPairs
    /\ issued' = IF okay THEN Append(issued, NewPair(uid, login_token_version(uid)))
                 ELSE issued
    /\ last' = [Exchange("login", resp) EXCEPT
                   !.user = IF okay THEN uid ELSE 0,
                   !.pair = IF okay THEN Len(issued) + 1 ELSE 0]
    /\ UNCHANGED <<users, blacklist, version, resets, nresets, now, tz, pwEpoch, consumed, registering, calls, repair_orders, creating>>

-----------------------------------------------------------------------------
(* api/v1/endpoints/auth.py: me *)

get_current_user_info(req, redis_ok) ==
    LET who == Authenticate(req, redis_ok) IN
    /\ Idle
    /\ last' = [Exchange("me", who) EXCEPT
                   !.user = who.user,
                   !.tok = IF who.status = 200 THEN get_token_from_request(req) ELSE NoToken]
    /\ UNCHANGED <<users, issued, blacklist, version, resets, nresets, now, tz,
                   pwEpoch, consumed, registering, calls, repair_orders, creating>>

-----------------------------------------------------------------------------
(* api/v1/endpoints/auth.py: refresh *)

\* A plausible slip: the token version is not compared.
refresh_response_noversion(token_str, redis_ok) ==
    LET payload == decode_token(token_str) IN
    IF token_str = NoToken THEN Resp(401, "Refresh token required")
    ELSE IF payload = NoToken \/ payload.typ # "refresh"
    THEN Resp(401, "Invalid refresh token")
    ELSE IF ~redis_ok THEN ServerError
    ELSE IF is_token_blacklisted(payload.jti) THEN Resp(401, "Token has been revoked")
    ELSE IF payload.sub \notin DOMAIN users \/ ~users[payload.sub].is_active
    THEN Resp(401, "Invalid refresh token")
    ELSE Resp(200, "OK")

\* A plausible slip: the type claim is not compared.
refresh_response_notype(token_str, redis_ok) ==
    LET payload == decode_token(token_str) IN
    IF token_str = NoToken THEN Resp(401, "Refresh token required")
    ELSE IF payload = NoToken THEN Resp(401, "Invalid refresh token")
    ELSE IF ~redis_ok THEN ServerError
    ELSE IF is_token_blacklisted(payload.jti) THEN Resp(401, "Token has been revoked")
    ELSE IF payload.ver < get_token_version(payload.sub)
    THEN Resp(401, "Token has been invalidated")
    ELSE IF payload.sub \notin DOMAIN users \/ ~users[payload.sub].is_active
    THEN Resp(401, "Invalid refresh token")
    ELSE Resp(200, "OK")

\* token_str comes from the body or the refresh_token cookie.
refresh_response(token_str, redis_ok) ==
    LET payload == decode_token(token_str) IN
    IF token_str = NoToken THEN Resp(401, "Refresh token required")
    ELSE IF payload = NoToken \/ payload.typ # "refresh"
    THEN Resp(401, "Invalid refresh token")
    ELSE IF ~redis_ok THEN ServerError
    ELSE IF is_token_blacklisted(payload.jti) THEN Resp(401, "Token has been revoked")
    ELSE IF payload.ver < get_token_version(payload.sub)
    THEN Resp(401, "Token has been invalidated")
    ELSE IF payload.sub \notin DOMAIN users \/ ~users[payload.sub].is_active
    THEN Resp(401, "Invalid refresh token")
    ELSE Resp(200, "OK")

\* payload = decode_token(token); if payload and payload.get("jti"):
\*     expiry = get_token_expiry_seconds(token)
\*     if expiry > 0: await blacklist_token(jti, expiry)
BlacklistIfLive(bl, token) ==
    IF Decodes(token) /\ get_token_expiry_seconds(token) > 0
    THEN blacklist_token(bl, token.jti, get_token_expiry_seconds(token))
    ELSE bl

\* A plausible slip: the old token is blacklisted as soon as it has been
\* decoded, before the blacklist, version and user checks.
refresh_blacklist_early(token_str, redis_ok) ==
    IF redis_ok /\ Decodes(token_str) /\ token_str.typ = "refresh"
    THEN BlacklistIfLive(blacklist, token_str)
    ELSE blacklist

\* The blacklist a refresh call leaves: the old token is blacklisted after
\* every check has passed.
refresh_blacklist(token_str, redis_ok) ==
    IF refresh_response(token_str, redis_ok).status = 200
    THEN BlacklistIfLive(blacklist, token_str)
    ELSE blacklist

refresh_token_endpoint(token_str, redis_ok) ==
    LET resp == refresh_response(token_str, redis_ok)
        okay == resp.status = 200
    IN
    /\ Idle
    /\ okay => Len(issued) < MaxPairs
    /\ blacklist' = refresh_blacklist(token_str, redis_ok)
    /\ issued' = IF okay
                 THEN Append(issued, NewPair(token_str.sub, get_token_version(token_str.sub)))
                 ELSE issued
    /\ consumed' = IF okay THEN consumed \cup {<<"refresh", token_str.jti>>} ELSE consumed
    /\ last' = [Exchange("refresh", resp) EXCEPT
                   !.user = IF okay THEN token_str.sub ELSE 0,
                   !.tok = IF okay THEN token_str ELSE NoToken,
                   !.pair = IF okay THEN Len(issued) + 1 ELSE 0,
                   !.replay = <<"refresh", token_str.jti>> \in consumed]
    /\ UNCHANGED <<users, version, resets, nresets, now, tz, pwEpoch, registering, calls, repair_orders, creating>>

-----------------------------------------------------------------------------
(* api/v1/endpoints/auth.py: logout *)

\* The access token logout blacklists: the Authorization header when it
\* starts with "Bearer ", else the access_token cookie.
LogoutToken(req) ==
    IF req.scheme = "Bearer" THEN req.cred ELSE req.access_cookie

logout(req, redis_ok) ==
    LET who == Authenticate(req, redis_ok)
        okay == who.status = 200
    IN
    /\ Idle
    /\ blacklist' = IF okay
                    THEN BlacklistIfLive(BlacklistIfLive(blacklist, LogoutToken(req)),
                                         req.refresh_cookie)
                    ELSE blacklist
    /\ last' = [Exchange("logout",
                         IF okay THEN Resp(200, "Successfully logged out") ELSE who) EXCEPT
                   !.user = who.user,
                   !.tok = IF okay THEN get_token_from_request(req) ELSE NoToken,
                   !.rtok = IF okay THEN req.refresh_cookie ELSE NoToken]
    /\ UNCHANGED <<users, issued, version, resets, nresets, now, tz, pwEpoch, consumed, registering, calls, repair_orders, creating>>

-----------------------------------------------------------------------------
(* api/v1/endpoints/auth.py: change-password *)

\* A plausible slip: the current password is not verified.
change_password_response_unverified(req, current_password, redis_ok) ==
    LET who == Authenticate(req, redis_ok) IN
    IF who.status # 200 THEN Resp(who.status, who.detail)
    ELSE Resp(200, "Password changed successfully. Please log in again.")

change_password_response(req, current_password, redis_ok) ==
    LET who == Authenticate(req, redis_ok) IN
    IF who.status # 200 THEN Resp(who.status, who.detail)
    ELSE IF ~verify_password(current_password, users[who.user].hashed_password)
    THEN Resp(400, "Current password is incorrect")
    ELSE Resp(200, "Password changed successfully. Please log in again.")

change_password(req, current_password, new_password, redis_ok) ==
    LET who == Authenticate(req, redis_ok)
        resp == change_password_response(req, current_password, redis_ok)
        okay == resp.status = 200
    IN
    /\ Idle
    /\ okay => version[who.user] < MaxVersion
    /\ users' = IF okay
                THEN [users EXCEPT ![who.user].hashed_password = get_password_hash(new_password)]
                ELSE users
    /\ version' = IF okay THEN increment_token_version(version, who.user) ELSE version
    /\ pwEpoch' = IF okay THEN [pwEpoch EXCEPT ![who.user].change = @ + 1] ELSE pwEpoch
    /\ last' = [Exchange("change_password", resp) EXCEPT
                   !.user = who.user,
                   !.tok = IF who.status = 200 THEN get_token_from_request(req) ELSE NoToken]
    /\ UNCHANGED <<issued, blacklist, resets, nresets, now, tz, consumed, registering, calls, repair_orders, creating>>

-----------------------------------------------------------------------------
(* api/v1/endpoints/auth.py: forgot-password and reset-password *)

GenericForgotMessage ==
    "If an account exists with that email, you will receive a password reset link shortly."

\* if user and user.is_active: the handler stores a token and sends the email.
ForgotStores(email) == UserIdOf(email) # 0 /\ users[UserIdOf(email)].is_active

\* A plausible slip: a failed send is not caught.
forgot_password_response_send_raises(email, redis_ok, send_ok) ==
    IF ForgotStores(email) /\ (~redis_ok \/ ~send_ok) THEN ServerError
    ELSE Resp(200, GenericForgotMessage)

\* send_ok: whether the email goes out.  send_password_reset_email raises
\* when it does not, and the handler catches that; a failing
\* store_password_reset_token raises out of the handler.
forgot_password_response(email, redis_ok, send_ok) ==
    IF ForgotStores(email) /\ ~redis_ok THEN ServerError
    ELSE Resp(200, GenericForgotMessage)

forgot_password(email, redis_ok, send_ok) ==
    LET resp == forgot_password_response(email, redis_ok, send_ok)
        stores == ForgotStores(email) /\ redis_ok
    IN
    /\ Idle
    /\ stores => nresets < MaxResets
    /\ nresets' = IF stores THEN nresets + 1 ELSE nresets
    /\ resets' = IF stores
                 THEN store_password_reset_token(resets, email, nresets + 1, RESET_EXPIRES_IN)
                 ELSE resets
    /\ last' = [Exchange("forgot_password", resp) EXCEPT
                   !.reset = IF stores THEN nresets + 1 ELSE 0,
                   !.sent = stores /\ send_ok]
    /\ UNCHANGED <<users, issued, blacklist, version, now, tz, pwEpoch, consumed, registering, calls, repair_orders, creating>>

\* A plausible slip: an unknown token gets an answer of its own.
reset_password_response_tokennotfound(token, redis_ok) ==
    IF ~redis_ok THEN ServerError
    ELSE IF get_email_from_reset_token(token) = "none"
    THEN Resp(404, "Reset token not found")
    ELSE IF UserIdOf(get_email_from_reset_token(token)) = 0
    THEN Resp(400, "Invalid or expired reset token")
    ELSE Resp(200, "Password reset successfully. You can now log in with your new password.")

reset_password_response(token, redis_ok) ==
    IF ~redis_ok THEN ServerError
    ELSE IF get_email_from_reset_token(token) = "none"
    THEN Resp(400, "Invalid or expired reset token")
    ELSE IF UserIdOf(get_email_from_reset_token(token)) = 0
    THEN Resp(400, "Invalid or expired reset token")
    ELSE Resp(200, "Password reset successfully. You can now log in with your new password.")

reset_password(token, new_password, redis_ok) ==
    LET resp == reset_password_response(token, redis_ok)
        okay == resp.status = 200
        uid  == IF okay THEN UserIdOf(get_email_from_reset_token(token)) ELSE 0
    IN
    /\ Idle
    /\ okay => version[uid] < MaxVersion
    /\ users' = IF okay
                THEN [users EXCEPT ![uid].hashed_password = get_password_hash(new_password)]
                ELSE users
    /\ resets' = IF okay THEN delete_password_reset_token(resets, token) ELSE resets
    /\ version' = IF okay THEN increment_token_version(version, uid) ELSE version
    /\ pwEpoch' = IF okay THEN [pwEpoch EXCEPT ![uid].reset = @ + 1] ELSE pwEpoch
    /\ consumed' = IF okay THEN consumed \cup {<<"reset", token>>} ELSE consumed
    /\ last' = [Exchange("reset_password", resp) EXCEPT
                   !.user = uid, !.reset = IF okay THEN token ELSE 0,
                   !.replay = <<"reset", token>> \in consumed]
    /\ UNCHANGED <<issued, blacklist, nresets, now, tz, registering, calls, repair_orders, creating>>

-----------------------------------------------------------------------------
(* Concurrent requests *)

Calls == 1 .. MaxCalls

\* A request in flight.  pc is the await the coroutine is suspended at
\* ("done": the response is ready); the other fields are the local
\* variables the handler holds across that await.
\*   user:  the user the handler loaded
\*   tok:   the refresh token of a refresh call
\*   reset: the reset token of a reset-password call
\*   ver:   the token version as the handler read it, or as
\*          increment_token_version returned it
\*   seen:  the password hash the handler verified the password against
\*   hash:  the password hash the handler assigned to the user
\*   pair:  the index of the token pair the call issued (0: none)
NoCall ==
    [op |-> "none", pc |-> "idle", status |-> 0, detail |-> "none", user |-> 0,
     tok |-> NoToken, reset |-> 0, ver |-> 0, seen |-> <<"none", "none">>,
     hash |-> <<"none", "none">>, pair |-> 0]

Finished(op, resp) ==
    [NoCall EXCEPT !.op = op, !.pc = "done", !.status = resp.status, !.detail = resp.detail]

FreeSlot(c) == calls[c] = NoCall

At(c, op, pc) == calls[c].op = op /\ calls[c].pc = pc

\* Password changes in flight for a user: the hash is or will be committed
\* and the version counter is not yet incremented.
ChangesInFlight(uid) ==
    Cardinality({c \in Calls : /\ calls[c].op \in {"change_password", "reset_password"}
                               /\ calls[c].pc # "done"
                               /\ calls[c].user = uid})

\* login up to "await get_token_version": the lookup by email, the password
\* check against the hash just loaded, the is_active check.
login_verify(c, email, password) ==
    LET resp == login_response(email, password, TRUE)
        uid  == UserIdOf(email)
    IN
    /\ FreeSlot(c)
    /\ calls' = [calls EXCEPT ![c] =
                    IF resp.status = 200
                    THEN [NoCall EXCEPT !.op = "login", !.pc = "version", !.user = uid,
                                        !.seen = users[uid].hashed_password]
                    ELSE Finished("login", resp)]
    /\ UNCHANGED <<users, issued, blacklist, version, resets, nresets, now, tz,
                   pwEpoch, consumed, last, registering, repair_orders, creating>>

\* login from "await get_token_version" on: the version is read now and the
\* tokens are created with it.
login_issue(c, redis_ok) ==
    LET uid == calls[c].user IN
    /\ At(c, "login", "version")
    /\ redis_ok => Len(issued) < MaxRacePairs
    /\ issued' = IF redis_ok THEN Append(issued, NewPair(uid, login_token_version(uid)))
                 ELSE issued
    /\ calls' = [calls EXCEPT ![c] =
                    IF redis_ok
                    THEN [@ EXCEPT !.pc = "done", !.status = 200, !.detail = "OK",
                                   !.ver = login_token_version(uid),
                                   !.pair = Len(issued) + 1]
                    ELSE [Finished("login", ServerError) EXCEPT !.user = uid]]
    /\ UNCHANGED <<users, blacklist, version, resets, nresets, now, tz,
                   pwEpoch, consumed, last, registering, repair_orders, creating>>

\* refresh up to "await blacklist_token": every check; current_version is
\* the value read here.
refresh_check(c, token_str, redis_ok) ==
    LET resp == refresh_response(token_str, redis_ok) IN
    /\ FreeSlot(c)
    /\ calls' = [calls EXCEPT ![c] =
                    IF resp.status = 200
                    THEN [NoCall EXCEPT !.op = "refresh", !.pc = "rotate",
                                        !.user = token_str.sub, !.tok = token_str,
                                        !.ver = get_token_version(token_str.sub)]
                    ELSE Finished("refresh", resp)]
    /\ UNCHANGED <<users, issued, blacklist, version, resets, nresets, now, tz,
                   pwEpoch, consumed, last, registering, repair_orders, creating>>

\* refresh from "await blacklist_token" on: the old token is blacklisted and
\* the new pair is created.
refresh_rotate(c) ==
    /\ At(c, "refresh", "rotate")
    /\ Len(issued) < MaxRacePairs
    /\ blacklist' = BlacklistIfLive(blacklist, calls[c].tok)
    /\ issued' = Append(issued, NewPair(calls[c].user, calls[c].ver))
    /\ consumed' = consumed \cup {<<"refresh", calls[c].tok.jti>>}
    /\ calls' = [calls EXCEPT ![c] =
                    [@ EXCEPT !.pc = "done", !.status = 200, !.detail = "OK",
                              !.pair = Len(issued) + 1]]
    /\ UNCHANGED <<users, version, resets, nresets, now, tz, pwEpoch, last,
                   registering, repair_orders, creating>>

\* change-password up to "await increment_token_version": the dependency,
\* the check of the current password, the commit of the new hash.
change_password_commit(c, req, current_password, new_password, redis_ok) ==
    LET who  == Authenticate(req, redis_ok)
        resp == change_password_response(req, current_password, redis_ok)
        okay == resp.status = 200
    IN
    /\ FreeSlot(c)
    /\ okay => version[who.user] + ChangesInFlight(who.user) < MaxRaceVersion
    /\ users' = IF okay
                THEN [users EXCEPT ![who.user].hashed_password = get_password_hash(new_password)]
                ELSE users
    /\ calls' = [calls EXCEPT ![c] =
                    IF okay
                    THEN [NoCall EXCEPT !.op = "change_password", !.pc = "incr",
                                        !.user = who.user,
                                        !.hash = get_password_hash(new_password)]
                    ELSE Finished("change_password", resp)]
    /\ UNCHANGED <<issued, blacklist, version, resets, nresets, now, tz,
                   pwEpoch, consumed, last, registering, repair_orders, creating>>

\* change-password from "await increment_token_version" on.
change_password_incr(c, redis_ok) ==
    LET uid == calls[c].user IN
    /\ At(c, "change_password", "incr")
    /\ version' = IF redis_ok THEN increment_token_version(version, uid) ELSE version
    /\ pwEpoch' = IF redis_ok THEN [pwEpoch EXCEPT ![uid].change = @ + 1] ELSE pwEpoch
    /\ calls' = [calls EXCEPT ![c] =
                    IF redis_ok
                    THEN [@ EXCEPT !.pc = "done", !.status = 200,
                                   !.detail = "Password changed successfully. Please log in again.",
                                   !.ver = increment_token_version(version, uid)[uid]]
                    ELSE [Finished("change_password", ServerError) EXCEPT !.user = uid]]
    /\ UNCHANGED <<users, issued, blacklist, resets, nresets, now, tz,
                   consumed, last, registering, repair_orders, creating>>

\* forgot-password, the whole handler.
forgot_password_call(c, email, redis_ok, send_ok) ==
    LET resp == forgot_password_response(email, redis_ok, send_ok)
        stores == ForgotStores(email) /\ redis_ok
    IN
    /\ FreeSlot(c)
    /\ stores => nresets < MaxRaceResets
    /\ nresets' = IF stores THEN nresets + 1 ELSE nresets
    /\ resets' = IF stores
                 THEN store_password_reset_token(resets, email, nresets + 1, RESET_EXPIRES_IN)
                 ELSE resets
    /\ calls' = [calls EXCEPT ![c] =
                    [Finished("forgot_password", resp) EXCEPT
                        !.reset = IF stores THEN nresets + 1 ELSE 0]]
    /\ UNCHANGED <<users, issued, blacklist, version, now, tz, pwEpoch, consumed,
                   last, registering, repair_orders, creating>>

\* reset-password up to the assignment of the hash: the token is looked up
\* and the user is loaded.
reset_password_lookup(c, token, redis_ok) ==
    LET resp == reset_password_response(token, redis_ok)
        okay == resp.status = 200
        uid  == IF okay THEN UserIdOf(get_email_from_reset_token(token)) ELSE 0
    IN
    /\ FreeSlot(c)
    /\ okay => version[uid] + ChangesInFlight(uid) < MaxRaceVersion
    /\ calls' = [calls EXCEPT ![c] =
                    IF okay
                    THEN [NoCall EXCEPT !.op = "reset_password", !.pc = "commit",
                                        !.user = uid, !.reset = token]
                    ELSE Finished("reset_password", resp)]
    /\ UNCHANGED <<users, issued, blacklist, version, resets, nresets, now, tz,
                   pwEpoch, consumed, last, registering, repair_orders, creating>>

\* reset-password: the hash is assigned and committed.
reset_password_commit(c, new_password) ==
    /\ At(c, "reset_password", "commit")
    /\ users' = [users EXCEPT ![calls[c].user].hashed_password = get_password_hash(new_password)]
    /\ calls' = [calls EXCEPT ![c] = [@ EXCEPT !.pc = "delete",
                                               !.hash = get_password_hash(new_password)]]
    /\ UNCHANGED <<issued, blacklist, version, resets, nresets, now, tz,
                   pwEpoch, consumed, last, registering, repair_orders, creating>>

\* reset-password from "await delete_password_reset_token" on: the token is
\* deleted and the version counter incremented.
reset_password_finish(c, redis_ok) ==
    LET uid == calls[c].user
        token == calls[c].reset
    IN
    /\ At(c, "reset_password", "delete")
    /\ resets' = IF redis_ok THEN delete_password_reset_token(resets, token) ELSE resets
    /\ version' = IF redis_ok THEN increment_token_version(version, uid) ELSE version
    /\ pwEpoch' = IF redis_ok THEN [pwEpoch EXCEPT ![uid].reset = @ + 1] ELSE pwEpoch
    /\ consumed' = IF redis_ok THEN consumed \cup {<<"reset", token>>} ELSE consumed
    /\ calls' = [calls EXCEPT ![c] =
                    IF redis_ok
                    THEN [@ EXCEPT !.pc = "done", !.status = 200,
                                   !.detail = "Password reset successfully. You can now log in with your new password.",
                                   !.ver = increment_token_version(version, uid)[uid]]
                    ELSE [Finished("reset_password", ServerError) EXCEPT
                             !.user = uid, !.reset = token]]
    /\ UNCHANGED <<users, issued, blacklist, nresets, now, tz, last,
                   registering, repair_orders, creating>>

\* The response of a finished call goes out.
call_return(c) ==
    /\ calls[c].pc = "done"
    /\ calls' = [calls EXCEPT ![c] = NoCall]
    /\ UNCHANGED <<users, issued, blacklist, version, resets, nresets, now, tz,
                   pwEpoch, consumed, last, registering, repair_orders, creating>>

-----------------------------------------------------------------------------
(* api/v1/endpoints/repair_orders.py *)

Tenants == {1, 2}

\* The users who call create_repair_order: a mechanic of each tenant, a
\* mechanic without tenant and a customer.
Staff ==
    {[role |-> "mechanic", tenant_id |-> t] : t \in Tenants \cup {0}}
    \cup {[role |-> "customer", tenant_id |-> 1]}

\* A create_repair_order call in flight: pc "commit" between
\* generate_order_number and db.commit(), "done" when the response is ready.
NoCreate ==
    [pc |-> "idle", tenant_id |-> 0, order_number |-> <<"RO", 0, 0>>,
     status |-> 0, detail |-> "none"]

\* str(tenant_id).replace('-', '').upper()[:8]; the tenants of the model
\* differ in these eight digits.
TenantPrefix(tenant_id) == tenant_id

\* f"RO-{prefix}-{count + 1:06d}", count the number of the tenant's rows.
generate_order_number(tenant_id) ==
    <<"RO", TenantPrefix(tenant_id),
      Cardinality({o \in repair_orders : o.tenant_id = tenant_id}) + 1>>

\* The response of create_repair_order before the order number is
\* generated, Resp(0, "none") when the call goes on.
create_repair_order_response(current_user, customer_found, vehicle_found) ==
    IF current_user.role \notin {"super_admin", "garage_admin", "receptionist", "mechanic"}
    THEN Resp(403, "Insufficient permissions")
    ELSE IF current_user.tenant_id = 0
    THEN Resp(400, "User must be associated with a tenant")
    ELSE IF ~customer_found THEN Resp(404, "Customer not found")
    ELSE IF ~vehicle_found
    THEN Resp(404, "Vehicle not found or does not belong to customer")
    ELSE Resp(0, "none")

\* create_repair_order up to db.commit(): the checks, then the order number
\* from the count of the rows committed so far.
create_repair_order_begin(c, current_user, customer_found, vehicle_found) ==
    LET resp == create_repair_order_response(current_user, customer_found, vehicle_found) IN
    /\ creating[c] = NoCreate
    /\ creating' = [creating EXCEPT ![c] =
                       IF resp.status = 0
                       THEN [NoCreate EXCEPT
                                !.pc = "commit",
                                !.tenant_id = current_user.tenant_id,
                                !.order_number = generate_order_number(current_user.tenant_id)]
                       ELSE [NoCreate EXCEPT !.pc = "done", !.status = resp.status,
                                             !.detail = resp.detail]]
    /\ UNCHANGED <<users, issued, blacklist, version, resets, nresets, now, tz,
                   pwEpoch, consumed, last, registering, calls, repair_orders>>

\* create_repair_order from db.commit() on: the insert fails on the unique
\* index of repair_orders.order_number when a row with the number exists by
\* now (IntegrityError, not caught).
create_repair_order_commit(c) ==
    LET taken == \E o \in repair_orders : o.order_number = creating[c].order_number IN
    /\ creating[c].pc = "commit"
    /\ ~taken => Cardinality(repair_orders) < MaxOrders
    /\ repair_orders' = IF taken THEN repair_orders
                        ELSE repair_orders \cup
                                 {[tenant_id |-> creating[c].tenant_id,
                                   order_number |-> creating[c].order_number]}
    /\ creating' = [creating EXCEPT ![c] =
                       IF taken
                       THEN [@ EXCEPT !.pc = "done", !.status = ServerError.status,
                                      !.detail = ServerError.detail]
                       ELSE [@ EXCEPT !.pc = "done", !.status = 201, !.detail = "Created"]]
    /\ UNCHANGED <<users, issued, blacklist, version, resets, nresets, now, tz,
                   pwEpoch, consumed, last, registering, calls>>

\* The response of a finished create_repair_order call goes out.
create_repair_order_return(c) ==
    /\ creating[c].pc = "done"
    /\ creating' = [creating EXCEPT ![c] = NoCreate]
    /\ UNCHANGED <<users, issued, blacklist, version, resets, nresets, now, tz,
                   pwEpoch, consumed, last, registering, calls, repair_orders>>

-----------------------------------------------------------------------------
(* Environment *)

\* Instants just before and after the expiry of a token, and the expiry of
\* its blacklist key.  The clock visits them for the tokens of the first
\* WatchedPairs pairs.
WatchedTokens == {t \in IssuedTokens : PairOf(t) <= WatchedPairs}

Instants ==
    {t.exp * TicksPerSecond + d : t \in WatchedTokens, d \in {-1, TicksPerSecond}}
    \cup {blacklist[t.jti] : t \in WatchedTokens}

\* Time passes; Redis drops the keys whose TTL has elapsed.
Advance ==
    \E t \in Instants :
        /\ Idle
        /\ t > now
        /\ now' = t
        /\ blacklist' = [j \in Jtis |-> IF blacklist[j] <= t THEN 0 ELSE blacklist[j]]
        /\ resets' = [r \in ResetTokens |->
                        IF resets[r].expire <= t THEN [email |-> "none", expire |-> 0]
                        ELSE resets[r]]
        /\ UNCHANGED <<users, issued, version, nresets, tz, pwEpoch, consumed, last, registering, calls, repair_orders, creating>>

\* The response goes out; the server waits for the next request.
Respond ==
    /\ ~Idle
    /\ last' = NoExchange
    /\ UNCHANGED <<users, issued, blacklist, version, resets, nresets, now, tz,
                   pwEpoch, consumed, registering, calls, repair_orders, creating>>

-----------------------------------------------------------------------------
(* Requests of the clients *)

\* A credential is sent in the Authorization header or in the access_token
\* cookie.  The forged token is a copy of the first token issued.
Credentials == IssuedTokens \cup {Forge(t) : t \in {x \in IssuedTokens : x.jti = 1}}

Requests ==
    {Req("Bearer", t, NoToken, NoToken) : t \in Credentials}
    \cup {Req("none", NoToken, NoToken, NoToken)}

\* The refresh token issued together with access token t.
Companion(t) == {r \in IssuedTokens : r.typ = "refresh" /\ PairOf(r) = PairOf(t)}

\* A logout sends its credential in the Authorization header, with or
\* without the refresh_token cookie of the session, or sends both tokens as
\* cookies.  Some clients spell the scheme in lower case.
LogoutRequests ==
    {Req("Bearer", t, NoToken, NoToken) : t \in IssuedTokens}
    \cup UNION {UNION {{Req("Bearer", t, NoToken, r), Req("bearer", t, NoToken, r),
                        Req("none", NoToken, t, r)} : r \in Companion(t)} :
                   t \in {x \in IssuedTokens : x.typ # "refresh"}}
    \cup {Req("none", NoToken, NoToken, NoToken)}

-----------------------------------------------------------------------------

Init ==
    /\ users = [u \in {1, 2} |->
                  [email |-> IF u = 1 THEN "alice@x.com" ELSE "bob@x.com",
                   hashed_password |-> get_password_hash("pw123456"),
                   role |-> "customer",
                   is_active |-> (u = 1),
                   is_verified |-> FALSE]]
    /\ issued = <<>>
    /\ blacklist = [j \in Jtis |-> 0]
    /\ version = [u \in UserIds |-> 0]
    /\ resets = [r \in ResetTokens |-> [email |-> "none", expire |-> 0]]
    /\ nresets = 0
    /\ now = 0
    /\ tz \in TzOffsets
    /\ pwEpoch = [u \in UserIds |-> [change |-> 0, reset |-> 0]]
    /\ consumed = {}
    /\ last = NoExchange
    /\ registering = [e \in Emails |-> 0]
    /\ calls = [c \in Calls |-> NoCall]
    /\ repair_orders = {}
    /\ creating = [c \in 1 .. MaxCreating |-> NoCreate]

Next ==
    \/ \E e \in Emails, p \in Passwords, ok \in BOOLEAN : login(e, p, ok)
    \/ \E q \in Requests, ok \in BOOLEAN : get_current_user_info(q, ok)
    \/ \E t \in Credentials \cup {NoToken}, ok \in BOOLEAN : refresh_token_endpoint(t, ok)
    \/ \E q \in LogoutRequests, ok \in BOOLEAN : logout(q, ok)
    \/ \E q \in Requests, c, n \in Passwords, ok \in BOOLEAN : change_password(q, c, n, ok)
    \/ \E e \in Emails, ok, sent \in BOOLEAN : forgot_password(e, ok, sent)
    \/ \E r \in 1 .. MaxResets, n \in Passwords, ok \in BOOLEAN : reset_password(r, n, ok)
    \/ Advance
    \/ Respond

Spec == Init /\ [][Next]_vars

\* Registration: the two steps of register calls, several of them in
\* flight at once, interleaved with the operations that read the users
\* table or use the tokens register issues.
RegisterNext ==
    \/ \E e \in Emails, built \in BOOLEAN : register_begin(e, built)
    \/ \E e \in Emails, p \in Passwords : register_commit(e, p)
    \/ \E e \in Emails, p \in Passwords, ok \in BOOLEAN : login(e, p, ok)
    \/ \E q \in Requests, ok \in BOOLEAN : get_current_user_info(q, ok)
    \/ \E q \in Requests, c, n \in Passwords, ok \in BOOLEAN : change_password(q, c, n, ok)
    \/ Respond

RegisterSpec == Init /\ [][RegisterNext]_vars

\* Every operation of the router, register included, each as one step.
\* The clock stands still.
FrameNext ==
    \/ \E e \in Emails, built \in BOOLEAN : register_begin(e, built)
    \/ \E e \in Emails, p \in Passwords : register_commit(e, p)
    \/ \E e \in Emails, p \in Passwords, ok \in BOOLEAN : login(e, p, ok)
    \/ \E q \in Requests, ok \in BOOLEAN : get_current_user_info(q, ok)
    \/ \E t \in Credentials \cup {NoToken}, ok \in BOOLEAN : refresh_token_endpoint(t, ok)
    \/ \E q \in LogoutRequests, ok \in BOOLEAN : logout(q, ok)
    \/ \E q \in Requests, c, n \in Passwords, ok \in BOOLEAN : change_password(q, c, n, ok)
    \/ \E e \in Emails, ok, sent \in BOOLEAN : forgot_password(e, ok, sent)
    \/ \E r \in 1 .. MaxResets, n \in Passwords, ok \in BOOLEAN : reset_password(r, n, ok)
    \/ Respond

FrameSpec == Init /\ [][FrameNext]_vars

\* Concurrent refresh calls: login and refresh run from await to await,
\* MaxCalls of them at a time.  The clock stands still.
RefreshRaceNext ==
    \/ \E c \in Calls, e \in Emails, p \in Passwords : login_verify(c, e, p)
    \/ \E c \in Calls, ok \in BOOLEAN : login_issue(c, ok)
    \/ \E c \in Calls, t \in IssuedTokens, ok \in BOOLEAN : refresh_check(c, t, ok)
    \/ \E c \in Calls : refresh_rotate(c)
    \/ \E c \in Calls : call_return(c)

RefreshRaceSpec == Init /\ [][RefreshRaceNext]_vars

\* Concurrent logins and password changes: login, change-password and
\* reset-password run from await to await, MaxCalls of them at a time.
\* The clock stands still.
PasswordRaceNext ==
    \/ \E c \in Calls, e \in Emails, p \in Passwords : login_verify(c, e, p)
    \/ \E c \in Calls, ok \in BOOLEAN : login_issue(c, ok)
    \/ \E c \in Calls, q \in Requests, p, n \in Passwords, ok \in BOOLEAN :
          change_password_commit(c, q, p, n, ok)
    \/ \E c \in Calls, ok \in BOOLEAN : change_password_incr(c, ok)
    \/ \E c \in Calls, e \in Emails, ok, sent \in BOOLEAN : forgot_password_call(c, e, ok, sent)
    \/ \E c \in Calls, r \in ResetTokens, ok \in BOOLEAN : reset_password_lookup(c, r, ok)
    \/ \E c \in Calls, n \in Passwords : reset_password_commit(c, n)
    \/ \E c \in Calls, ok \in BOOLEAN : reset_password_finish(c, ok)
    \/ \E c \in Calls : call_return(c)

PasswordRaceSpec == Init /\ [][PasswordRaceNext]_vars

\* Repair orders: create_repair_order calls, MaxCreating of them at a time.
OrderNext ==
    \/ \E c \in 1 .. MaxCreating, u \in Staff, cf, vf \in BOOLEAN :
          create_repair_order_begin(c, u, cf, vf)
    \/ \E c \in 1 .. MaxCreating : create_repair_order_commit(c)
    \/ \E c \in 1 .. MaxCreating : create_repair_order_return(c)

OrderSpec == Init /\ [][OrderNext]_vars

-----------------------------------------------------------------------------
(* Properties *)

\* C1: get_current_user returns a user for a token only if the token's
\* signature verifies, the clock (in whole seconds) has not passed its exp,
\* there is no blacklist key for its jti and its version is at least the
\* stored version of its user; the user returned is the token's subject.
\* This holds of every issued or forged token in every state, and of the
\* token of every successful /me call.
C1_ResolutionChecksAllFour ==
    /\ \A t \in IssuedTokens \cup ForgedTokens, ok \in BOOLEAN :
          get_current_user(t, ok).status = 200 =>
             /\ t.sig
             /\ UtcSeconds <= t.exp
             /\ blacklist[t.jti] = 0
             /\ t.ver >= version[t.sub]
             /\ get_current_user(t, ok).user = t.sub
    /\ (last.op = "me" /\ last.status = 200) =>
          /\ last.tok.sig
          /\ UtcSeconds <= last.tok.exp
          /\ blacklist[last.tok.jti] = 0
          /\ last.tok.ver >= version[last.tok.sub]
          /\ last.user = last.tok.sub

\* A /me call succeeds for a user whose version counter has been bumped,
\* while an older token of that user, still unexpired and not blacklisted,
\* carries a smaller version.
C1_Witness ==
    /\ last.op = "me" /\ last.status = 200
    /\ version[last.user] > 0
    /\ \E t \in IssuedTokens :
          /\ t.sub = last.user /\ t.ver < version[t.sub]
          /\ Decodes(t) /\ blacklist[t.jti] = 0

\* C2 (as stated): a refresh token that a successful refresh call has used
\* is rejected by refresh for as long as it is unexpired.
C2_ConsumedRefreshRejected ==
    \A i \in 1 .. Len(issued) :
        (<<"refresh", 2 * i>> \in consumed /\ Decodes(RefreshOf(i))) =>
            refresh_response(RefreshOf(i), TRUE).status # 200

\* C3: once change_password has succeeded for a user, no token issued to
\* that user before the call resolves, whether Redis answers or not; and
\* right after a later successful login of that user the access token it
\* returned resolves to the user and its refresh token is accepted by refresh.
C3_ChangePasswordInvalidatesEarlierTokens ==
    /\ \A i \in 1 .. Len(issued), ok \in BOOLEAN :
          issued[i].epoch.change < pwEpoch[issued[i].sub].change =>
             /\ get_current_user(AccessOf(i), ok).status # 200
             /\ get_current_user(RefreshOf(i), ok).status # 200
    /\ (last.op = "login" /\ last.status = 200 /\ pwEpoch[last.user].change > 0) =>
          /\ get_current_user(AccessOf(last.pair), TRUE) = Outcome(200, "OK", last.user)
          /\ refresh_response(RefreshOf(last.pair), TRUE).status = 200

\* A login succeeds after a password change while a token issued before
\* the change is still unexpired and not blacklisted.
C3_Witness ==
    /\ last.op = "login" /\ last.status = 200
    /\ pwEpoch[last.user].change > 0
    /\ \E i \in 1 .. Len(issued) :
          /\ issued[i].sub = last.user
          /\ issued[i].epoch.change < pwEpoch[last.user].change
          /\ Decodes(AccessOf(i)) /\ blacklist[2 * i - 1] = 0

\* C4 (as stated): right after a successful logout the token that
\* authenticated the call does not resolve and the refresh token sent with
\* it is not accepted by refresh.
C4_LogoutRevokesBothTokens ==
    (last.op = "logout" /\ last.status = 200) =>
        /\ get_current_user(last.tok, TRUE).status # 200
        /\ last.rtok # NoToken => refresh_response(last.rtok, TRUE).status # 200

\* A reset token that a successful call has used is no longer stored.
C5_UsedResetTokenInvalid ==
    \A r \in 1 .. MaxResets :
        <<"reset", r>> \in consumed =>
            reset_password_response(r, TRUE) = Resp(400, "Invalid or expired reset token")

\* What one reset_password call does with a stored and with a used token.
C5_ResetStep ==
    (Idle /\ last'.op = "reset_password") =>
        \A r \in 1 .. MaxResets, n \in Passwords, ok \in BOOLEAN :
            reset_password(r, n, ok) =>
                /\ (ok /\ get_email_from_reset_token(r) # "none") =>
                      /\ last'.status = 200
                      /\ users'[last'.user].email = get_email_from_reset_token(r)
                      /\ users'[last'.user].hashed_password = get_password_hash(n)
                      /\ <<"reset", r>> \notin consumed
                /\ <<"reset", r>> \in consumed =>
                      /\ last'.status # 200
                      /\ ok => last'.detail = "Invalid or expired reset token"
                      /\ users' = users

\* C5: a reset_password call with a stored reset token, Redis answering,
\* succeeds and leaves the user with the hash of the new password; a reset
\* token that a successful call has used is answered 400 "Invalid or
\* expired reset token" whenever Redis answers, and a call that presents it
\* never succeeds and leaves the users table as it was.
C5_ResetTokenSingleUse == [](C5_UsedResetTokenInvalid) /\ [][C5_ResetStep]_vars

\* A second reset_password call with a reset token that has already
\* changed the password has been answered 400.
C5_Witness ==
    /\ last.op = "reset_password" /\ last.replay
    /\ last.status = 400 /\ last.detail = "Invalid or expired reset token"
    /\ \E u \in UserIds : pwEpoch[u].reset > 0

\* C6: the version counter of a user counts the successful change_password
\* and reset_password calls for that user, and once reset_password has
\* succeeded no token issued to the user before it is accepted, by
\* get_current_user or by refresh, whether Redis answers or not.
C6_ResetInvalidatesEarlierTokens ==
    /\ \A u \in UserIds : version[u] = pwEpoch[u].change + pwEpoch[u].reset
    /\ \A i \in 1 .. Len(issued), ok \in BOOLEAN :
          issued[i].epoch.reset < pwEpoch[issued[i].sub].reset =>
             /\ get_current_user(AccessOf(i), ok).status # 200
             /\ get_current_user(RefreshOf(i), ok).status # 200
             /\ refresh_response(RefreshOf(i), ok).status # 200
             /\ refresh_response(AccessOf(i), ok).status # 200

\* reset_password has just succeeded for a user who holds a refresh token
\* issued before it, still unexpired and not blacklisted.
C6_Witness ==
    /\ last.op = "reset_password" /\ last.status = 200
    /\ \E i \in 1 .. Len(issued) :
          /\ issued[i].sub = last.user
          /\ issued[i].epoch.reset < pwEpoch[last.user].reset
          /\ Decodes(RefreshOf(i)) /\ blacklist[2 * i] = 0

\* What one change_password call with a wrong current password does.
C7_WrongPasswordStep ==
    (Idle /\ last'.op = "change_password") =>
        \A q \in Requests, c \in Passwords, n \in Passwords :
            (/\ Authenticate(q, TRUE).status = 200
             /\ ~verify_password(c, users[Authenticate(q, TRUE).user].hashed_password)
             /\ change_password(q, c, n, TRUE)) =>
                /\ last'.status = 400
                /\ last'.detail = "Current password is incorrect"
                /\ users' = users
                /\ version' = version
                /\ blacklist' = blacklist
                /\ pwEpoch' = pwEpoch
                /\ last'.tok = get_token_from_request(q)
                /\ get_current_user(last.tok, TRUE)' = Authenticate(q, TRUE)

\* C7: an authenticated change_password call whose current_password does
\* not verify against the stored hash is answered 400 "Current password is
\* incorrect", leaves the users table, the version counters and the
\* blacklist as they were, and the token of the call still resolves to the
\* same user afterwards.
C7_WrongCurrentPasswordChangesNothing == [][C7_WrongPasswordStep]_vars

\* A change_password call has been refused for its current password, and
\* its token resolves.
C7_Witness ==
    /\ last.op = "change_password" /\ last.status = 400
    /\ last.detail = "Current password is incorrect"
    /\ get_current_user(last.tok, TRUE) = Outcome(200, "OK", last.user)

\* What one login call with correct credentials does.
C8_LoginStep ==
    (Idle /\ last'.op = "login") =>
        \A e \in Emails, p \in Passwords :
            (/\ UserIdOf(e) # 0
             /\ users[UserIdOf(e)].is_active
             /\ verify_password(p, users[UserIdOf(e)].hashed_password)
             /\ login(e, p, TRUE)) =>
                /\ last'.status = 200
                /\ get_current_user(AccessOf(last.pair), TRUE)' = Outcome(200, "OK", UserIdOf(e))

\* C8: a login with the email of a registered active user and the password
\* that verifies against the stored hash succeeds when Redis answers, and
\* right after it get_current_user on the returned access token yields the
\* user registered under that email, whatever the user's version counter.
C8_LoginThenResolutionYieldsUser ==
    /\ [](\A e \in Emails, p \in Passwords :
             (/\ UserIdOf(e) # 0
              /\ users[UserIdOf(e)].is_active
              /\ verify_password(p, users[UserIdOf(e)].hashed_password)) =>
                 login_response(e, p, TRUE).status = 200)
    /\ [][C8_LoginStep]_vars

\* A login has succeeded for a user whose version counter is not zero.
C8_Witness ==
    /\ last.op = "login" /\ last.status = 200
    /\ version[last.user] > 0
    /\ get_current_user(AccessOf(last.pair), TRUE).user = last.user

\* What one login call with an unknown email or a wrong password does.
C9_FailedLoginStep ==
    (Idle /\ last'.op = "login") =>
        \A e \in Emails, p \in Passwords, ok \in BOOLEAN :
            (/\ \/ UserIdOf(e) = 0
                \/ ~verify_password(p, users[UserIdOf(e)].hashed_password)
             /\ login(e, p, ok)) =>
                /\ last' = Exchange("login", Resp(401, "Incorrect email or password"))
                /\ UNCHANGED <<users, issued, blacklist, version, resets, nresets>>

\* C9: login answers an email without a user record and a wrong password
\* for an existing user with one and the same response, 401 "Incorrect
\* email or password", whether Redis answers or not, and such a call
\* changes nothing in the state but the exchange itself.
C9_LoginErrorUniform ==
    /\ [](\A e \in Emails, p \in Passwords, ok \in BOOLEAN :
             (\/ UserIdOf(e) = 0
              \/ ~verify_password(p, users[UserIdOf(e)].hashed_password)) =>
                 login_response(e, p, ok) = Resp(401, "Incorrect email or password"))
    /\ [][C9_FailedLoginStep]_vars

\* A login has been refused with the uniform error while the users table
\* holds some of the emails and not others, and some password is wrong for
\* an active user.
C9_Witness ==
    /\ last.op = "login" /\ last.status = 401
    /\ last.detail = "Incorrect email or password"
    /\ \E e \in Emails : UserIdOf(e) = 0
    /\ \E e \in Emails, p \in Passwords :
          /\ UserIdOf(e) # 0 /\ users[UserIdOf(e)].is_active
          /\ ~verify_password(p, users[UserIdOf(e)].hashed_password)

\* C10 (as stated): every forgot_password call is answered 200 with the
\* generic message.
C10_ForgotPasswordAlwaysSucceeds ==
    last.op = "forgot_password" =>
        /\ last.status = 200
        /\ last.detail = GenericForgotMessage

\* C11 (as stated): every logout call that Redis answers succeeds, with or
\* without a token, whatever the state of the token.
C11_LogoutAlwaysSucceeds ==
    (last.op = "logout" /\ last.status # 500) => last.status = 200

\* C12 (as stated): with Redis answering, any two requests whose
\* current-user resolution fails get one and the same outcome, and a
\* failed resolution yields no user.
C12_ResolutionFailuresUniform ==
    \A q1 \in Requests, q2 \in Requests :
        (Authenticate(q1, TRUE).status # 200 /\ Authenticate(q2, TRUE).status # 200) =>
            /\ Authenticate(q1, TRUE) = Authenticate(q2, TRUE)
            /\ Authenticate(q1, TRUE).user = 0

\* Token t is accepted by current-user resolution or by refresh.
C13_Accepted(t) ==
    \/ get_current_user(t, TRUE).status = 200
    \/ refresh_response(t, TRUE).status = 200

\* Token t is expired, blacklisted or version-stale.
C13_Dead(t) ==
    \/ ~Decodes(t)
    \/ is_token_blacklisted(t.jti)
    \/ t.ver < get_token_version(t.sub)

\* C13 (as stated): no step, the passage of time included, takes an issued
\* token that is expired, blacklisted or version-stale to a state in which
\* current-user resolution or refresh accepts it.
C13_NoTokenResurrected ==
    [][\A t \in IssuedTokens : C13_Dead(t) => ~C13_Accepted(t)']_vars

\* No token resolves, and none is accepted by refresh, while Redis does
\* not answer.
C14_NothingAcceptedWithoutRedis ==
    \A t \in IssuedTokens \cup ForgedTokens :
        /\ get_current_user(t, FALSE).status # 200
        /\ get_current_user(t, FALSE).user = 0
        /\ refresh_response(t, FALSE).status # 200

\* What one /me or refresh call does while Redis does not answer.
C14_OutageStep ==
    /\ (Idle /\ last'.op = "me") =>
          \A q \in Requests :
              get_current_user_info(q, FALSE) => (last'.status # 200 /\ last'.user = 0)
    /\ (Idle /\ last'.op = "refresh") =>
          \A t \in Credentials \cup {NoToken} :
              refresh_token_endpoint(t, FALSE) =>
                  /\ last'.status # 200 /\ last'.pair = 0
                  /\ issued' = issued
                  /\ blacklist' = blacklist

\* C14: while Redis does not answer, get_current_user yields no user for
\* any issued or forged token and refresh accepts none; a /me call made
\* during the outage is not answered 200, and a refresh call made during
\* the outage is not answered 200, issues no pair and writes nothing.  A
\* decodable token gets the 500 of the failed Redis call.
C14_FailClosedOnStoreFailure ==
    /\ [](C14_NothingAcceptedWithoutRedis)
    /\ [](\A t \in IssuedTokens : Decodes(t) => get_current_user(t, FALSE).status = 500)
    /\ [][C14_OutageStep]_vars

\* A /me call has failed on the Redis outage while some issued token
\* resolves, and some refresh token is accepted, once Redis answers.
C14_Witness ==
    /\ last.op = "me" /\ last.status = 500
    /\ \E t \in IssuedTokens : get_current_user(t, TRUE).status = 200
    /\ \E t \in IssuedTokens : refresh_response(t, TRUE).status = 200

\* C15 (as stated): when a refresh call has returned a new pair and the
\* refresh token it presented has at least one second left to live, that
\* token is in the blacklist.
C15_OldTokenBlacklistedBeforeNewPair ==
    (/\ last.op = "refresh" /\ last.status = 200
     /\ last.tok.exp * TicksPerSecond - now >= TicksPerSecond) =>
        is_token_blacklisted(last.tok.jti)

\* refresh accepts a token only if it decodes and its type claim is
\* "refresh"; a token without that claim is answered 401 "Invalid refresh
\* token" as long as it decodes.
C16_OnlyRefreshTypeAccepted ==
    /\ \A t \in IssuedTokens \cup ForgedTokens, ok \in BOOLEAN :
          /\ refresh_response(t, ok).status = 200 => (Decodes(t) /\ t.typ = "refresh")
          /\ (Decodes(t) /\ t.typ # "refresh") =>
                refresh_response(t, ok) = Resp(401, "Invalid refresh token")
    /\ (last.op = "refresh" /\ last.status = 200) => last.tok.typ = "refresh"

\* What one refresh call that presents a token of another type does.
C16_AccessTokenStep ==
    (Idle /\ last'.op = "refresh") =>
        \A t \in Credentials, ok \in BOOLEAN :
            (t.typ # "refresh" /\ refresh_token_endpoint(t, ok)) =>
                /\ last'.status = 401 /\ last'.pair = 0
                /\ issued' = issued
                /\ blacklist' = blacklist

\* C16: refresh accepts only tokens that decode and carry type "refresh";
\* a refresh call that presents an access token, even one that resolves a
\* user, is answered 401, issues no pair and writes nothing.
C16_RefreshRequiresRefreshType ==
    [](C16_OnlyRefreshTypeAccepted) /\ [][C16_AccessTokenStep]_vars

\* A refresh call has been answered 401 "Invalid refresh token" while an
\* access token that resolves a user is in circulation and unchanged.
C16_Witness ==
    /\ last.op = "refresh" /\ last.status = 401
    /\ last.detail = "Invalid refresh token"
    /\ \E t \in IssuedTokens :
          /\ t.typ # "refresh"
          /\ get_current_user(t, TRUE).status = 200
          /\ refresh_response(t, TRUE) = Resp(401, "Invalid refresh token")

\* What one forgot_password call for an existing active user does when
\* Redis answers and the email cannot be sent.
C19_SendFailureStep ==
    (Idle /\ last'.op = "forgot_password") =>
        \A e \in Emails :
            (ForgotStores(e) /\ forgot_password(e, TRUE, FALSE)) =>
                /\ last'.status = 200
                /\ last'.detail = GenericForgotMessage
                /\ ~last'.sent
                /\ resets'[last'.reset].email = e
                /\ reset_password_response(last.reset, TRUE)'.status = 200
                /\ \A ok \in BOOLEAN :
                      forgot_password_response(e, ok, FALSE) = forgot_password_response(e, ok, TRUE)

\* C19: a forgot_password call for an existing active user whose email
\* cannot be sent is answered 200 with the generic message, the same
\* response as when the email goes out, and the reset token it stored is
\* in Redis under the user's email and is accepted by reset_password.
C19_SendFailureSwallowed == [][C19_SendFailureStep]_vars

\* A forgot_password call has stored a reset token and failed to send the
\* email, and reset_password accepts the token.
C19_Witness ==
    /\ last.op = "forgot_password" /\ last.status = 200
    /\ last.reset # 0 /\ ~last.sent
    /\ reset_password_response(last.reset, TRUE).status = 200

\* What one refresh call that is not answered 200 does.
C20_RejectedRefreshStep ==
    (Idle /\ last'.op = "refresh" /\ last'.status # 200) =>
        \A t \in Credentials \cup {NoToken}, ok \in BOOLEAN :
            refresh_token_endpoint(t, ok) =>
                /\ blacklist' = blacklist
                /\ version' = version
                /\ issued' = issued
                /\ last'.pair = 0
                /\ UNCHANGED <<users, resets, nresets, consumed>>

C17_EmailsUnique ==
    \A u1 \in DOMAIN users, u2 \in DOMAIN users :
        users[u1].email = users[u2].email => u1 = u2

\* What a register call does for an email that has a user when the call
\* looks it up, and what the commit of a call does when a concurrent call
\* has stored the email in between.
C17_DuplicateStep ==
    /\ Idle =>
          \A e \in Emails, built \in BOOLEAN :
              (UserIdOf(e) # 0 /\ register_begin(e, built)) =>
                  /\ last' = Exchange("register", Resp(400, "Email already registered"))
                  /\ users' = users
                  /\ issued' = issued
                  /\ registering' = registering
    /\ (Idle /\ last'.op = "register") =>
          \A e \in Emails, p \in Passwords :
              (UserIdOf(e) # 0 /\ register_commit(e, p)) =>
                  /\ last'.status # 201 /\ last'.pair = 0
                  /\ users' = users
                  /\ issued' = issued

\* C17: in every state, concurrent register calls included, no two user
\* rows hold the same email; a register call for an email that has a user
\* when the call looks it up is answered 400 "Email already registered",
\* stores no user and issues no tokens; and the commit of a call whose
\* email was stored by a concurrent call in between stores no user and
\* issues no tokens either.
C17_EmailUniqueness == [](C17_EmailsUnique) /\ [][C17_DuplicateStep]_vars

\* Of two register calls in flight for one email, one has stored the user
\* and the commit of the other has just failed.
C17_Witness ==
    /\ last.op = "register" /\ last.status = 500
    /\ \E e \in Emails : UserIdOf(e) = 3 /\ registering[e] = 0

\* C18: right after a successful register the new user row has role
\* customer, is active and unverified and holds the hash of the password;
\* both tokens of the pair the call returned carry version 0 and the new
\* user's id, and get_current_user on the access token yields the new
\* user, whose role is customer.
C18_RegisterCreatesCustomer ==
    (last.op = "register" /\ last.status = 201) =>
        /\ last.user \in DOMAIN users
        /\ users[last.user].role = "customer"
        /\ users[last.user].is_active
        /\ ~users[last.user].is_verified
        /\ \E p \in Passwords : verify_password(p, users[last.user].hashed_password)
        /\ AccessOf(last.pair).ver = 0 /\ AccessOf(last.pair).sub = last.user
        /\ RefreshOf(last.pair).ver = 0 /\ RefreshOf(last.pair).sub = last.user
        /\ get_current_user(AccessOf(last.pair), TRUE) = Outcome(200, "OK", last.user)
        /\ users[get_current_user(AccessOf(last.pair), TRUE).user].role = "customer"

\* A register call has succeeded for an email that had no user.
C18_Witness ==
    /\ last.op = "register" /\ last.status = 201
    /\ last.user = 3 /\ users[3].email = "carol@x.com"
    /\ get_current_user(AccessOf(last.pair), TRUE).user = 3

\* What a reset-password call does when its token maps to no email or the
\* mapped email has no user.
C22_FailedResetStep ==
    (Idle /\ last'.op = "reset_password") =>
        \A r \in 1 .. MaxResets, n \in Passwords :
            ((get_email_from_reset_token(r) = "none"
              \/ UserIdOf(get_email_from_reset_token(r)) = 0)
             /\ reset_password(r, n, TRUE)) =>
                /\ last'.status = 400
                /\ last'.detail = "Invalid or expired reset token"
                /\ users' = users
                /\ resets' = resets
                /\ version' = version

C26_ResolutionRejectsRefreshTokens ==
    /\ \A t \in IssuedTokens : t.typ = "refresh" => get_current_user(t, TRUE).status # 200
    /\ (last.op = "me" /\ last.status = 200) => last.tok.typ # "refresh"

\* C27: for every logout request that authenticates, the access token
\* logout blacklists is the token get_token_from_request handed to
\* get_current_user.
C27_LogoutBlacklistsAuthenticatingToken ==
    \A q \in LogoutRequests :
        Authenticate(q, TRUE).status = 200 => LogoutToken(q) = get_token_from_request(q)

\* What a step may do to the version counters.
C28_VersionStep ==
    /\ \A u \in UserIds : version'[u] >= version[u]
    /\ \A u \in UserIds :
          version'[u] # version[u] =>
              /\ last'.op \in {"change_password", "reset_password"}
              /\ last'.status = 200
              /\ last'.user = u
              /\ version'[u] = version[u] + 1
    /\ (last' # last /\ (last'.status # 200
                         \/ last'.op \in {"register", "login", "refresh", "logout",
                                          "forgot_password", "me"})) =>
          version' = version
    /\ \A t \in IssuedTokens :
          (version' # version /\ t.sub # last'.user) =>
              get_current_user(t, TRUE)' = get_current_user(t, TRUE)

\* C28: no step lowers a version counter; a counter changes only in a
\* change-password or reset-password call that succeeds for that user, and
\* then by one; register, login, refresh, logout, forgot-password, /me and
\* every call that fails leave all counters as they were; and a password
\* change for one user leaves what get_current_user answers for the tokens
\* of every other user as it was.
C28_VersionChangesOnlyOnPasswordChange == [][C28_VersionStep]_vars

\* alice has changed her password while carol, registered in the same
\* behaviour, holds a token that is still accepted.
C28_Witness ==
    /\ version[1] = 1
    /\ last.op \in {"change_password", "reset_password"} /\ last.status = 200
    /\ \E i \in 1 .. Len(issued) :
          issued[i].sub = 3 /\ get_current_user(AccessOf(i), TRUE).status = 200

\* A password change that has just completed.
C21_Completed(c) ==
    /\ calls[c].pc # "done" /\ calls'[c].pc = "done"
    /\ calls'[c].op \in {"change_password", "reset_password"}
    /\ calls'[c].status = 200

\* The counter of a user is the number of password changes completed for
\* that user, 0 when there was none.
C21_CounterCountsCompleted ==
    \A u \in UserIds : get_token_version(u) = pwEpoch[u].change + pwEpoch[u].reset

\* The step in which a password change completes raises the counter of its
\* user by one and obtains the new value from increment_token_version.
C21_IncrementStep ==
    \A c \in Calls :
        C21_Completed(c) =>
            /\ version'[calls[c].user] = version[calls[c].user] + 1
            /\ calls'[c].ver = version'[calls[c].user]
            /\ increment_token_version(version, calls[c].user)[calls[c].user]
                   = version[calls[c].user] + 1

\* C21: get_token_version reads 0 for a user whose counter has no record,
\* and under every interleaving of concurrent change-password and
\* reset-password calls the counter of a user equals the number of such
\* calls that completed for that user, each completing call raising it by
\* one and receiving the new value.
C21_VersionIncrementAtomic == [](C21_CounterCountsCompleted) /\ [][C21_IncrementStep]_vars

\* A reset-password call committed its hash after a change-password call
\* of the same user had committed another, and completed while that call
\* has still to increment the counter.
C21_Witness ==
    /\ At(1, "change_password", "incr")
    /\ calls[2].op = "reset_password" /\ calls[2].pc = "done" /\ calls[2].status = 200
    /\ calls[2].user = calls[1].user
    /\ calls[1].hash # calls[2].hash
    /\ users[calls[2].user].hashed_password = calls[2].hash
    /\ calls[2].ver = 1 /\ version[calls[2].user] = 1

\* C23: no two refresh calls that presented the same refresh token both
\* return a new token pair.
C23_OneRefreshPerToken ==
    \A c1 \in Calls, c2 \in Calls :
        (/\ c1 # c2
         /\ calls[c1].op = "refresh" /\ calls[c1].pc = "done" /\ calls[c1].status = 200
         /\ calls[c2].op = "refresh" /\ calls[c2].pc = "done" /\ calls[c2].status = 200)
        => calls[c1].tok # calls[c2].tok

\* C24: no two reset-password calls that presented the same reset token
\* both replace the password hash and report success.
C24_OneResetPerToken ==
    \A c1 \in Calls, c2 \in Calls :
        (/\ c1 # c2
         /\ calls[c1].op = "reset_password" /\ calls[c1].pc = "done" /\ calls[c1].status = 200
         /\ calls[c2].op = "reset_password" /\ calls[c2].pc = "done" /\ calls[c2].status = 200)
        => calls[c1].reset # calls[c2].reset

\* A password change of user u has completed and the hash it committed is
\* the hash the user has.
C25_ChangeCompleted(u) ==
    \E c \in Calls :
        /\ calls[c].op \in {"change_password", "reset_password"}
        /\ calls[c].pc = "done" /\ calls[c].status = 200
        /\ calls[c].user = u
        /\ calls[c].hash = users[u].hashed_password

\* C25: once a password change of a user has completed and none is in
\* flight, the access token of a login that verified its password against
\* the hash the user had before is not accepted by get_current_user.
C25_OldPasswordLoginRejectedAfterChange ==
    \A c \in Calls :
        (/\ calls[c].op = "login" /\ calls[c].pc = "done" /\ calls[c].status = 200
         /\ calls[c].seen # users[calls[c].user].hashed_password
         /\ C25_ChangeCompleted(calls[c].user)
         /\ ChangesInFlight(calls[c].user) = 0)
        => get_current_user(AccessOf(calls[c].pair), TRUE).status # 200

\* C29: once a reset-password call has succeeded for a user, no reset
\* token generated before the one it presented still authorises a
\* password change of that user.
C29_ResetConsumesEarlierTokens ==
    \A c \in Calls :
        (calls[c].op = "reset_password" /\ calls[c].pc = "done" /\ calls[c].status = 200) =>
            \A r \in ResetTokens :
                r < calls[c].reset =>
                    ~(/\ reset_password_response(r, TRUE).status = 200
                      /\ UserIdOf(get_email_from_reset_token(r)) = calls[c].user)

\* C30: the order number of a create_repair_order call is the tenant's row
\* count plus one when it is generated, no two rows of repair_orders carry
\* the same order_number, and no create_repair_order call fails on a
\* collision of order numbers.
C30_OrderNumbersUniqueNoCollision ==
    /\ \A o1 \in repair_orders, o2 \in repair_orders :
          o1.order_number = o2.order_number => o1 = o2
    /\ \A c \in 1 .. MaxCreating :
          creating[c].pc = "done" => creating[c].status # ServerError.status

====
